---- MODULE Spec2Model ----
(***************************************************************************)
(* State-machine model of the chat workflow of the finance agentic RAG     *)
(* chatbot: the LangGraph graph built by ChatOrchestrator.build_graph      *)
(* (planner, supervisor, retrieval, generator) and the two HTTP entry      *)
(* points of app/routers/chat.py that run it (POST /chat/ with             *)
(* graph.ainvoke and POST /chat/stream with graph.astream).                *)
(*                                                                         *)
(* One action is one execution of a graph node (one superstep of the       *)
(* graph runner) or the end of the run as the entry point sees it.         *)
(* External services (cache, chat model, embedding model, vector index,    *)
(* tool servers) answer nondeterministically: every call either succeeds   *)
(* with a value from a small set or fails.                                 *)
(***************************************************************************)
EXTENDS Integers, Sequences, FiniteSets, TLC

(***************************************************************************)
(* Bounds of the model.                                                    *)
(***************************************************************************)
MaxDocs == 1          \* passages the vector index returns at most
MaxAgentMsgs == 1     \* assistant messages in one agent output at most
MaxConcSteps == 3     \* supersteps of a run followed while two requests interleave
MaxChunks == 2        \* chunks one uploaded document is split into at most
MaxPoints == 4        \* points the vector index holds at most

(***************************************************************************)
(* Program constants.                                                      *)
(***************************************************************************)
RecursionLimit == 10          \* config={"recursion_limit": 10} of ainvoke
DefaultRecursionLimit == 25   \* astream is called without a config

(***************************************************************************)
(* Input domains.                                                          *)
(***************************************************************************)
Entries == {"invoke", "stream"}
Messages == {"", "m1"}
DocContents == {"d1", "d2"}
ToolNames == {"t1"}
Contents == {"", " ", "a1"}
Plans == { <<"Respond directly to the query without using tools.">>,
           <<"s1", "s2", "s3">> }
ModelOutputs == {"retrieval", "generator", "__end__", "planner"}

(***************************************************************************)
(* Values of the workflow state. A key of the state that no node has       *)
(* written yet is Unset; Python's None is the string PyNone.               *)
(***************************************************************************)
Unset == [set |-> FALSE]
Some(v) == [set |-> TRUE, val |-> v]
PyNone == "None"

SupervisorApology == "Sorry, I encountered an error while supervising the workflow."
GeneratorApology(e) == "Sorry, I encountered an error while generating the response: " \o e
NoDocumentsFound == "No documents found for the query."
ErrorFragment(e) == "Error: " \o e
NoFragment == "<nothing emitted>"

(***************************************************************************)
(* Pure helpers.                                                           *)
(***************************************************************************)
SeqsUpTo(S, n) == UNION { [1..k -> S] : k \in 0..n }

\* One message of the agent's output: its class, its text and the names of
\* the tool calls carried in additional_kwargs["tool_calls"].
HumanMessage(text) == [cls |-> "HumanMessage", content |-> text, tool_calls |-> <<>>]
\* The tool calls one assistant message carries: none, one, or the same tool
\* called twice.
ToolCallLists == {<<>>} \cup { <<t>> : t \in ToolNames } \cup { <<t, t>> : t \in ToolNames }
AIMessages == [cls : {"AIMessage"}, content : Contents, tool_calls : ToolCallLists]
AgentOutputs(msg) == { <<HumanMessage(msg)>> \o tail : tail \in SeqsUpTo(AIMessages, MaxAgentMsgs) }

RECURSIVE FlattenToolCalls(_)
FlattenToolCalls(messages) ==
    IF messages = <<>> THEN <<>>
    ELSE Head(messages).tool_calls \o FlattenToolCalls(Tail(messages))

IsBlank(content) == content = "" \/ content = " "

RECURSIVE SelectAssistant(_)
SelectAssistant(messages) ==
    IF messages = <<>> THEN <<>>
    ELSE LET m == Head(messages) IN
         (IF m.cls = "AIMessage" /\ ~IsBlank(m.content) THEN <<m>> ELSE <<>>)
            \o SelectAssistant(Tail(messages))

\* utils.extract_tool_calls: every tool-call name in message order, and the
\* text of the last assistant message that is not blank (None without one).
extract_tool_calls(messages) ==
    LET assistant_msgs == SelectAssistant(messages) IN
    [ tool_names |-> FlattenToolCalls(messages),
      final_content |-> IF assistant_msgs # <<>>
                        THEN assistant_msgs[Len(assistant_msgs)].content
                        ELSE PyNone ]

\* QdrantVectorStore.similarity_search: an empty query raises before the
\* try block; a failure of the embedding call or of the index search is
\* caught inside and turned into the empty list.
\* (raised: the exception left the function; failed: a call inside failed.)
similarity_search(query) ==
    IF query = ""
    THEN { [raised |-> TRUE, failed |-> FALSE, documents |-> <<>>] }
    ELSE { [raised |-> FALSE, failed |-> TRUE, documents |-> <<>>] }
         \cup { [raised |-> FALSE, failed |-> FALSE, documents |-> ds] :
                     ds \in SeqsUpTo(DocContents, MaxDocs) }

RECURSIVE JoinDocs(_, _)
JoinDocs(docs, i) ==
    IF i > Len(docs) THEN ""
    ELSE (IF i > 1 THEN "\n\n" ELSE "")
         \o "Document " \o ToString(i) \o ": \n" \o docs[i]
         \o JoinDocs(docs, i + 1)

formatted_docs(docs) == JoinDocs(docs, 1)

\* MCPClient.get_tools_json: the JSON summary, or "[]" when the tool servers
\* cannot be reached (the exception is caught and logged).
ToolsJson == "[{name: t1}]"
get_tools_json(reachable) == IF reachable THEN ToolsJson ELSE "[]"

\* get_tools that lets the failure of the tool servers out.
get_tools_raising(reachable) ==
    [raised |-> ~reachable, tools |-> IF reachable THEN <<"t1">> ELSE <<>>]

\* MCPClient.get_tools: the tool list, or [] when the servers cannot be
\* reached (the exception is caught and logged; nothing is raised).
get_tools(reachable) ==
    [raised |-> FALSE, tools |-> IF reachable THEN <<"t1">> ELSE <<>>]

\* schemas.model.Supervisor: next_node is a Literal of three values; any
\* other model output fails validation.
SupervisorValid(out) == out \in {"retrieval", "generator", "__end__"}

(***************************************************************************)
(* The cache (RedisCache, keyed by the message).                           *)
(***************************************************************************)
Absent == [present |-> FALSE]
Entry(resp, tools_called) ==
    [present |-> TRUE, response |-> resp, metadata |-> tools_called]

get_cached(c, msg) == c[msg]
store(c, msg, resp, tools_called) == [c EXCEPT ![msg] = Entry(resp, tools_called)]

(***************************************************************************)
(* The workflow state (OverallState) and the updates nodes return. A key   *)
(* that is absent from the state, or from an update, is Unset; the graph   *)
(* runner keeps the last value written to each key.                        *)
(***************************************************************************)
StateKeys == {"message", "plan", "tools", "retrieved_docs", "response",
              "tools_used", "is_cached"}
NoUpdate == [k \in StateKeys |-> Unset]
InputState(msg) == [NoUpdate EXCEPT !["message"] = Some(msg)]

\* The run of a second request that is in flight at the same time, suspended
\* at an await; Idle when there is none.
VARIABLE other
Idle == [outcome |-> "none"]

\* a runner whose channels are shared by the runs in flight: a key the
\* update leaves out is read from the other run.
Apply_across_runs(st, update) ==
    [k \in StateKeys |-> IF update[k].set THEN update[k] ELSE other.state[k]]

\* The runner keeps, per run and per key, the last value written.
Apply(st, update) == [k \in StateKeys |-> IF update[k].set THEN update[k] ELSE st[k]]

\* Command(goto=..., update=...) as returned by a node.
Command(goto, update) == [goto |-> goto, update |-> update]

(***************************************************************************)
(* What each node returns, as a function of the answers of the services    *)
(* it called.                                                              *)
(***************************************************************************)
PlanCalls == { [ok |-> FALSE, steps |-> <<>>] } \cup { [ok |-> TRUE, steps |-> p] : p \in Plans }

\* planner with the failure of the planning model call swallowed: it goes on
\* with an empty plan.
planner_return_swallowing(st, lookup_ok, cached, tools_reachable, plan_call) ==
    IF lookup_ok /\ cached.present
    THEN [raised |-> FALSE, error |-> "",
          update |-> [NoUpdate EXCEPT !["response"] = Some(cached.response),
                                      !["tools_used"] = Some(cached.metadata),
                                      !["is_cached"] = Some(TRUE)]]
    ELSE [raised |-> FALSE, error |-> "",
          update |-> [NoUpdate EXCEPT !["message"] = st["message"],
                                      !["plan"] = Some(IF plan_call.ok THEN plan_call.steps ELSE <<>>),
                                      !["tools"] = Some(get_tools_json(tools_reachable))]]

\* ChatOrchestrator.planner. lookup_ok: get_cached returned; cached: what it
\* returned; tools_reachable: the tool servers answered; plan_call: the
\* planning model call. Any exception is logged and raised again.
planner_return(st, lookup_ok, cached, tools_reachable, plan_call) ==
    IF ~lookup_ok
    THEN [raised |-> TRUE, error |-> "cache lookup failed", update |-> NoUpdate]
    ELSE IF cached.present
    THEN [raised |-> FALSE, error |-> "",
          update |-> [NoUpdate EXCEPT !["response"] = Some(cached.response),
                                      !["tools_used"] = Some(cached.metadata),
                                      !["is_cached"] = Some(TRUE)]]
    ELSE IF ~plan_call.ok
    THEN [raised |-> TRUE, error |-> "planning model call failed", update |-> NoUpdate]
    ELSE [raised |-> FALSE, error |-> "",
          update |-> [NoUpdate EXCEPT !["message"] = st["message"],
                                      !["plan"] = Some(plan_call.steps),
                                      !["tools"] = Some(get_tools_json(tools_reachable))]]

\* planner_route without the is_cached test.
planner_route_always_supervisor(st) == "supervisor"

\* ChatOrchestrator.planner_route
planner_route(st) ==
    IF st["is_cached"] = Some(TRUE) THEN "__end__" ELSE "supervisor"

\* supervisor that applies the model's node name without validating it.
supervisor_return_unvalidated(call_ok, out) ==
    IF call_ok
    THEN Command(out, NoUpdate)
    ELSE Command("__end__", [NoUpdate EXCEPT !["response"] = Some(SupervisorApology)])

\* supervisor whose except branch falls back to the generator.
supervisor_return_to_generator(call_ok, out) ==
    IF call_ok /\ SupervisorValid(out)
    THEN Command(out, NoUpdate)
    ELSE Command("generator", [NoUpdate EXCEPT !["response"] = Some(SupervisorApology)])

\* ChatOrchestrator.supervisor. call_ok: the decision call returned; out: the
\* node name the model produced.
supervisor_return(call_ok, out) ==
    IF call_ok /\ SupervisorValid(out)
    THEN Command(out, NoUpdate)
    ELSE Command("__end__", [NoUpdate EXCEPT !["response"] = Some(SupervisorApology)])

\* retrieval that leaves the documents field empty when nothing was found.
retrieval_return_without_sentinel(search) ==
    IF search.raised \/ Len(search.documents) = 0
    THEN Command("supervisor", [NoUpdate EXCEPT !["retrieved_docs"] = Some("")])
    ELSE Command("supervisor",
                 [NoUpdate EXCEPT !["retrieved_docs"] = Some(formatted_docs(search.documents))])

\* retrieval that ends the run when nothing was found.
retrieval_return_ending(search) ==
    IF search.raised
    THEN Command("supervisor", [NoUpdate EXCEPT !["retrieved_docs"] = Some("")])
    ELSE IF Len(search.documents) = 0
    THEN Command("__end__", [NoUpdate EXCEPT !["retrieved_docs"] = Some(NoDocumentsFound)])
    ELSE Command("supervisor",
                 [NoUpdate EXCEPT !["retrieved_docs"] = Some(formatted_docs(search.documents))])

\* retrieval that also clears the response of an earlier generation.
retrieval_return_resetting(search) ==
    IF search.raised
    THEN Command("supervisor", [NoUpdate EXCEPT !["retrieved_docs"] = Some(""),
                                                !["response"] = Some("")])
    ELSE IF Len(search.documents) = 0
    THEN Command("supervisor", [NoUpdate EXCEPT !["retrieved_docs"] = Some(NoDocumentsFound),
                                                !["response"] = Some("")])
    ELSE Command("supervisor",
                 [NoUpdate EXCEPT !["retrieved_docs"] = Some(formatted_docs(search.documents)),
                                  !["response"] = Some("")])

\* ChatOrchestrator.retrieval. search: what similarity_search did.
retrieval_return(search) ==
    IF search.raised
    THEN Command("supervisor", [NoUpdate EXCEPT !["retrieved_docs"] = Some("")])
    ELSE IF Len(search.documents) = 0
    THEN Command("supervisor", [NoUpdate EXCEPT !["retrieved_docs"] = Some(NoDocumentsFound)])
    ELSE Command("supervisor",
                 [NoUpdate EXCEPT !["retrieved_docs"] = Some(formatted_docs(search.documents))])

\* generator whose except branch leaves tools_used alone.
generator_return_keeping_tools(agent_ok, messages, store_ok) ==
    IF ~agent_ok \/ ~store_ok
    THEN Command("supervisor",
                 [NoUpdate EXCEPT !["response"] =
                     Some(GeneratorApology(IF ~agent_ok THEN "agent call failed"
                                           ELSE "cache write failed"))])
    ELSE LET x == extract_tool_calls(messages) IN
         Command("supervisor",
                 [NoUpdate EXCEPT !["response"] = Some(x.final_content),
                                  !["tools_used"] = Some(x.tool_names)])

\* generator that ends the run itself once it has an answer.
generator_return_ending(agent_ok, messages, store_ok) ==
    IF ~agent_ok \/ ~store_ok
    THEN Command("supervisor",
                 [NoUpdate EXCEPT !["response"] =
                     Some(GeneratorApology(IF ~agent_ok THEN "agent call failed"
                                           ELSE "cache write failed")),
                                  !["tools_used"] = Some(<<>>)])
    ELSE LET x == extract_tool_calls(messages) IN
         Command("__end__",
                 [NoUpdate EXCEPT !["response"] = Some(x.final_content),
                                  !["tools_used"] = Some(x.tool_names)])

\* ChatOrchestrator.generator. agent_ok: the agent call returned; messages:
\* its output; store_ok: the cache write returned. Every exception of the
\* try block, the one of cache.store included, ends in the except branch.
generator_return(agent_ok, messages, store_ok) ==
    IF ~agent_ok
    THEN Command("supervisor",
                 [NoUpdate EXCEPT !["response"] = Some(GeneratorApology("agent call failed")),
                                  !["tools_used"] = Some(<<>>)])
    ELSE IF ~store_ok
    THEN Command("supervisor",
                 [NoUpdate EXCEPT !["response"] = Some(GeneratorApology("cache write failed")),
                                  !["tools_used"] = Some(<<>>)])
    ELSE LET x == extract_tool_calls(messages) IN
         Command("supervisor",
                 [NoUpdate EXCEPT !["response"] = Some(x.final_content),
                                  !["tools_used"] = Some(x.tool_names)])

\* The try block of ChatOrchestrator.generator from its first statement: g is
\* what get_tools did; an exception there ends in the except branch like
\* any other.
generator_try(g, agent_ok, messages, store_ok) ==
    IF g.raised
    THEN Command("supervisor",
                 [NoUpdate EXCEPT !["response"] = Some(GeneratorApology("tool fetch failed")),
                                  !["tools_used"] = Some(<<>>)])
    ELSE generator_return(agent_ok, messages, store_ok)

\* generator whose except branch caches the apology under the message.
generator_cache_storing_apology(c, msg, g, agent_ok, messages, store_ok) ==
    IF g.raised \/ ~agent_ok
    THEN store(c, msg, GeneratorApology("agent call failed"), <<>>)
    ELSE IF ~store_ok THEN c
    ELSE LET x == extract_tool_calls(messages) IN
         store(c, msg, x.final_content, x.tool_names)

\* The cache after ChatOrchestrator.generator on cache c: cache.store is the
\* last statement of the try block, reached only when get_tools and the agent
\* call returned, and writes the extracted answer and tool list under the
\* message; the except branch does not touch the cache.
generator_cache(c, msg, g, agent_ok, messages, store_ok) ==
    IF g.raised \/ ~agent_ok \/ ~store_ok
    THEN c
    ELSE LET x == extract_tool_calls(messages) IN
         store(c, msg, x.final_content, x.tool_names)

(***************************************************************************)
(* The graph and its runner.                                               *)
(***************************************************************************)
\* a graph whose supervisor has a static edge to the generator.
StaticEdges_to_generator(node) ==
    IF node = "__start__" THEN {"planner"}
    ELSE IF node = "supervisor" THEN {"generator"}
    ELSE {}

\* build_graph: the static edges, START -> planner and supervisor -> END.
\* (The planner's conditional edge and the goto of a Command are dynamic.)
StaticEdges(node) ==
    IF node = "__start__" THEN {"planner"}
    ELSE IF node = "supervisor" THEN {"__end__"}
    ELSE {}

\* The nodes the runner triggers for the next superstep once node has
\* returned: the targets of its static edges together with its dynamic
\* target goto. END is not a node: an edge to it triggers nothing.
prepare_next_tasks(node, goto) == (StaticEdges(node) \cup {goto}) \ {"__end__"}

(***************************************************************************)
(* The entry points.                                                       *)
(***************************************************************************)
\* The cap on supersteps: ainvoke is given recursion_limit 10, astream is
\* given no config and runs under the runner's default.
recursion_limit(e) == IF e = "invoke" THEN RecursionLimit ELSE DefaultRecursionLimit

NoBody == "<no body>"
Truthy(v) == v # PyNone /\ v # ""

\* ChatResponse(response=...): the response field is a string.
ChatResponseValid(v) == v # PyNone

\* chat_response that answers with whatever the state holds when the run raised.
chat_response_return_lenient(raised, error, st) ==
    IF ~st["response"].set THEN [status |-> 500, body |-> "'response'"]
    ELSE IF ~ChatResponseValid(st["response"].val)
    THEN [status |-> 500, body |-> "validation error"]
    ELSE [status |-> 200, body |-> st["response"].val]

\* chat_response once graph.ainvoke has returned (raised = FALSE) or raised.
chat_response_return(raised, error, st) ==
    IF raised THEN [status |-> 500, body |-> error]
    ELSE IF ~st["response"].set THEN [status |-> 500, body |-> "'response'"]
    ELSE IF ~ChatResponseValid(st["response"].val)
    THEN [status |-> 500, body |-> "validation error"]
    ELSE [status |-> 200, body |-> st["response"].val]

\* generate_stream, one chunk {node: update}: a fragment is yielded when the
\* update carries a response that is truthy.
stream_chunk(update, lastFrag) ==
    IF update["response"].set /\ Truthy(update["response"].val)
    THEN update["response"].val
    ELSE lastFrag

(***************************************************************************)
(* The vector store (QdrantVectorStore), the ingestion workflow and the    *)
(* health checks. The vector index is a collection that exists or not and  *)
(* the number of points it holds.                                          *)
(***************************************************************************)
\* QdrantVectorStore.create_collection. list_ok: get_collections answered;
\* create_ok: the create call, made when the collection is missing,
\* succeeded. Every exception is caught and turned into False.
create_collection(ix, list_ok, create_ok) ==
    IF ~list_ok THEN [raised |-> FALSE, ok |-> FALSE, index |-> ix]
    ELSE IF ix.exists THEN [raised |-> FALSE, ok |-> TRUE, index |-> ix]
    ELSE IF create_ok THEN [raised |-> FALSE, ok |-> TRUE, index |-> [ix EXCEPT !.exists = TRUE]]
    ELSE [raised |-> FALSE, ok |-> FALSE, index |-> ix]

\* QdrantVectorStore.add_documents for n documents. fail_at: the document
\* whose embedding or upsert fails (0: none does); an upsert into a missing
\* collection fails. The documents before the failing one stay upserted;
\* the exception is caught and turned into False. An empty list raises.
add_documents(ix, n, fail_at) ==
    IF n = 0 THEN [raised |-> TRUE, ok |-> FALSE, upserted |-> 0, index |-> ix]
    ELSE LET failing == IF ~ix.exists THEN 1 ELSE fail_at
             done == IF failing = 0 THEN n ELSE failing - 1
         IN [raised |-> FALSE, ok |-> failing = 0, upserted |-> done,
             index |-> [ix EXCEPT !.points = @ + done]]

NoChunksToStore == "No chunks to store"
FailedToStoreChunks == "Failed to store chunks"

\* DocumentIngestionOrchestrator.store_chunks for n chunks: the result of
\* create_collection is not looked at.
store_chunks(ix, n, list_ok, create_ok, fail_at) ==
    IF n = 0
    THEN [stored_count |-> 0, error |-> NoChunksToStore, upserted |-> 0, index |-> ix]
    ELSE LET c == create_collection(ix, list_ok, create_ok)
             a == add_documents(c.index, n, fail_at)
         IN IF c.raised \/ a.raised
            THEN [stored_count |-> 0, error |-> "exception", upserted |-> a.upserted,
                  index |-> a.index]
            ELSE IF a.ok
            THEN [stored_count |-> n, error |-> PyNone, upserted |-> a.upserted, index |-> a.index]
            ELSE [stored_count |-> 0, error |-> FailedToStoreChunks, upserted |-> a.upserted,
                  index |-> a.index]

\* health.db_vector_store: c is what create_collection did.
db_vector_store_return(c) ==
    IF c.raised THEN [status |-> 503, body |-> "Qdrant vector store unhealthy"]
    ELSE [status |-> 200, body |-> "Healthy"]

\* health.mcp_health: g is what get_tools did.
mcp_health_return(g) ==
    IF g.raised THEN [status |-> 503, body |-> "MCP servers unhealthy", tool_count |-> 0]
    ELSE IF Len(g.tools) = 0
    THEN [status |-> 200, body |-> "No tools available.", tool_count |-> 0]
    ELSE [status |-> 200, body |-> "Healthy", tool_count |-> Len(g.tools)]

(***************************************************************************)
(* State of the model.                                                     *)
(***************************************************************************)
VARIABLES
    entry,         \* the entry point serving the request: "invoke" or "stream"
    message,       \* request.message
    cache,         \* the cache service: message -> entry or Absent
    state,         \* the workflow state of the run
    step,          \* superstep counter of the graph runner
    next,          \* the dynamic target of the node executed last, or "__end__"
    tasks,         \* the nodes triggered for the next superstep
    outcome,       \* "running", or how the run ended
    ev,            \* what the most recently executed node did
    ran,           \* the nodes executed so far in this run
    httpStatus,    \* status of the HTTP answer (0: not answered yet)
    body,          \* body of the non-streaming answer
    lastFragment,  \* last fragment yielded by the streaming answer
    index,         \* the vector index: does the collection exist, how many points
    call           \* the last call to the ingestion or health endpoints, and its answer

chatVars == <<entry, message, cache, state, step, next, tasks, outcome, ev, ran,
              httpStatus, body, lastFragment, other>>
vars == <<chatVars, index, call>>

\* No call to the ingestion or health endpoints yet.
NoCall == [op |-> "none", list_ok |-> TRUE, create_ok |-> TRUE, existed |-> FALSE,
           chunks |-> 0, fail_at |-> 0, upserted |-> 0, stored_count |-> 0,
           error |-> PyNone, reachable |-> TRUE, agent_ok |-> TRUE, store_ok |-> TRUE,
           status |-> 0, body |-> NoBody, tool_count |-> 0, response |-> PyNone]

NoEvent == [node |-> "none", kind |-> "none", tool_names |-> <<>>, final_content |-> PyNone,
            documents |-> <<>>]
Event(node, kind) == [NoEvent EXCEPT !.node = node, !.kind = kind]

\* A request arrives: the graph is built and the input is written. The
\* runner spends superstep 0 on the START node, so planner runs in step 1.
Begin(e, msg) ==
    /\ entry = e
    /\ message = msg
    /\ state = InputState(msg)
    /\ step = 1
    /\ next = "planner"
    /\ tasks = StaticEdges("__start__")
    /\ outcome = "running"
    /\ ev = NoEvent
    /\ ran = {}
    /\ httpStatus = IF e = "stream" THEN 200 ELSE 0
    /\ body = NoBody
    /\ lastFragment = NoFragment

Init ==
    /\ \E e \in Entries, msg \in Messages : Begin(e, msg)
    /\ cache = [m \in Messages |-> Absent]
    /\ other = Idle
    /\ index = [exists |-> TRUE, points |-> 0]
    /\ call = NoCall

Runnable(node) ==
    /\ outcome = "running"
    /\ IF node = "__end__" THEN tasks = {} ELSE node \in tasks
    /\ step <= recursion_limit(entry)

\* A node has returned cmd: the runner applies the update, schedules the
\* target and, on the streaming entry point, hands the chunk to generate_stream.
Superstep(node, cmd, event) ==
    /\ state' = Apply(state, cmd.update)
    /\ next' = cmd.goto
    /\ tasks' = prepare_next_tasks(node, cmd.goto)
    /\ step' = step + 1
    /\ ev' = event
    /\ ran' = ran \cup {node}
    /\ lastFragment' = IF entry = "stream"
                       THEN stream_chunk(cmd.update, lastFragment)
                       ELSE lastFragment
    /\ UNCHANGED <<entry, message, outcome, httpStatus, body, other, index, call>>

\* An exception leaves the graph run and reaches the entry point.
Raised(how, error, node, event) ==
    /\ outcome' = how
    /\ ev' = event
    /\ ran' = IF node = "none" THEN ran ELSE ran \cup {node}
    /\ IF entry = "invoke"
       THEN LET r == chat_response_return(TRUE, error, state) IN
            /\ httpStatus' = r.status
            /\ body' = r.body
            /\ UNCHANGED lastFragment
       ELSE /\ lastFragment' = ErrorFragment(error)
            /\ UNCHANGED <<httpStatus, body>>
    /\ UNCHANGED <<entry, message, state, step, next, tasks, other, index, call>>

(***************************************************************************)
(* Actions.                                                                *)
(***************************************************************************)
planner ==
    /\ Runnable("planner")
    /\ \E lookup_ok \in BOOLEAN, tools_reachable \in BOOLEAN, plan_call \in PlanCalls :
         LET r == planner_return(state, lookup_ok, get_cached(cache, message),
                                 tools_reachable, plan_call)
             present == get_cached(cache, message).present
             kind == IF ~lookup_ok THEN "lookup_failed"
                     ELSE IF present THEN "lookup_found"
                     ELSE IF ~plan_call.ok THEN "plan_failed"
                     ELSE IF ~tools_reachable THEN "planned_fetch_failed"
                     ELSE "planned"
         IN
         IF r.raised
         THEN Raised("planner_error", r.error, "planner", Event("planner", kind))
         ELSE Superstep("planner",
                        Command(planner_route(Apply(state, r.update)), r.update),
                        Event("planner", kind))
    /\ UNCHANGED cache

supervisor ==
    /\ Runnable("supervisor")
    /\ \E call_ok \in BOOLEAN, out \in ModelOutputs :
         LET cmd == supervisor_return(call_ok, out) IN
         Superstep("supervisor", cmd,
                   Event("supervisor", IF ~call_ok THEN "failed"
                                       ELSE IF ~SupervisorValid(out) THEN "rejected"
                                       ELSE "decided"))
    /\ UNCHANGED cache

retrieval ==
    /\ Runnable("retrieval")
    /\ \E search \in similarity_search(state["message"].val) :
         Superstep("retrieval", retrieval_return(search),
                   [Event("retrieval", IF search.raised THEN "raised"
                                       ELSE IF search.failed THEN "search_failed"
                                       ELSE "searched")
                      EXCEPT !.documents = search.documents])
    /\ UNCHANGED cache

generator ==
    /\ Runnable("generator")
    /\ \E tools_reachable \in BOOLEAN, agent_ok \in BOOLEAN :
       \* a failed agent call gives no output and the cache write is not reached
       \E messages \in (IF agent_ok THEN AgentOutputs(state["message"].val) ELSE {<<>>}),
          store_ok \in (IF agent_ok THEN BOOLEAN ELSE {TRUE}) :
         LET x == extract_tool_calls(messages)
             g == get_tools(tools_reachable)
         IN
         /\ cache' = generator_cache(cache, state["message"].val, g, agent_ok,
                                     messages, store_ok)
         /\ Superstep("generator", generator_try(g, agent_ok, messages, store_ok),
                      [node |-> "generator",
                       kind |-> IF g.raised THEN "tools_failed"
                                ELSE IF ~agent_ok THEN "agent_failed"
                                ELSE IF ~store_ok THEN "store_failed" ELSE "generated",
                       tool_names |-> IF agent_ok THEN x.tool_names ELSE <<>>,
                       final_content |-> IF agent_ok THEN x.final_content ELSE PyNone,
                       documents |-> <<>>])

\* The runner checks the step counter before it looks for scheduled nodes:
\* past the cap the run is aborted with GraphRecursionError, which the entry
\* point catches.
CapAbort ==
    /\ outcome = "running"
    /\ step > recursion_limit(entry)
    /\ Raised("cap", "Recursion limit reached", "none", ev)
    /\ UNCHANGED cache

\* The runner finds nothing scheduled: the run is done and the entry point
\* builds its answer from the output state.
Finish ==
    /\ Runnable("__end__")
    /\ outcome' = IF state["is_cached"] = Some(TRUE) THEN "cached" ELSE "terminate"
    /\ IF entry = "invoke"
       THEN LET r == chat_response_return(FALSE, "", state) IN
            /\ httpStatus' = r.status
            /\ body' = r.body
       ELSE UNCHANGED <<httpStatus, body>>
    /\ UNCHANGED <<entry, message, cache, state, step, next, tasks, ev, ran, lastFragment, other,
                   index, call>>

\* The next request with the identical message, on either entry point,
\* served by a fresh orchestrator and a fresh workflow state over the same
\* cache. (A request with another message reads and writes another key.)
NewRequest ==
    /\ outcome # "running"
    /\ \E e \in Entries :
         /\ entry' = e
         /\ httpStatus' = IF e = "stream" THEN 200 ELSE 0
    /\ message' = message
    /\ state' = InputState(message)
    /\ step' = 1
    /\ next' = "planner"
    /\ tasks' = StaticEdges("__start__")
    /\ outcome' = "running"
    /\ ev' = NoEvent
    /\ ran' = {}
    /\ body' = NoBody
    /\ lastFragment' = NoFragment
    /\ UNCHANGED <<cache, other, index, call>>

Next ==
    \/ planner
    \/ supervisor
    \/ retrieval
    \/ generator
    \/ CapAbort
    \/ Finish
    \/ NewRequest

Spec == Init /\ [][Next]_vars

(***************************************************************************)
(* Two requests in flight at once. Each request is served by its own       *)
(* orchestrator, graph and run; the event loop runs one of them until an   *)
(* await and may then go on with the other. The cache service is the one   *)
(* object both reach.                                                      *)
(***************************************************************************)
\* What a suspended request keeps: everything but the cache.
Locals ==
    [entry |-> entry, message |-> message, state |-> state, step |-> step,
     next |-> next, tasks |-> tasks, outcome |-> outcome, ev |-> ev, ran |-> ran,
     httpStatus |-> httpStatus, body |-> body, lastFragment |-> lastFragment]

\* A request that has arrived and has not run yet.
Arrived(e, msg) ==
    [entry |-> e, message |-> msg, state |-> InputState(msg), step |-> 1,
     next |-> "planner", tasks |-> StaticEdges("__start__"), outcome |-> "running",
     ev |-> NoEvent, ran |-> {}, httpStatus |-> IF e = "stream" THEN 200 ELSE 0,
     body |-> NoBody, lastFragment |-> NoFragment]

\* Two requests to POST /chat/ have arrived.
ConcurrentInit ==
    /\ \E msg \in Messages : Begin("invoke", msg)
    /\ cache = [m \in Messages |-> Absent]
    /\ \E msg \in Messages : other = Arrived("invoke", msg)
    /\ index = [exists |-> TRUE, points |-> 0]
    /\ call = NoCall

ConcurrentPlanner == step <= MaxConcSteps /\ planner
ConcurrentSupervisor == step <= MaxConcSteps /\ supervisor
ConcurrentRetrieval == step <= MaxConcSteps /\ retrieval
ConcurrentGenerator == step <= MaxConcSteps /\ generator
ConcurrentFinish == Finish

\* The event loop suspends the running request and resumes the other one.
Switch ==
    /\ other.outcome = "running"
    /\ other' = Locals
    /\ entry' = other.entry
    /\ message' = other.message
    /\ state' = other.state
    /\ step' = other.step
    /\ next' = other.next
    /\ tasks' = other.tasks
    /\ outcome' = other.outcome
    /\ ev' = other.ev
    /\ ran' = other.ran
    /\ httpStatus' = other.httpStatus
    /\ body' = other.body
    /\ lastFragment' = other.lastFragment
    /\ UNCHANGED <<cache, index, call>>

ConcurrentNext ==
    \/ ConcurrentPlanner
    \/ ConcurrentSupervisor
    \/ ConcurrentRetrieval
    \/ ConcurrentGenerator
    \/ ConcurrentFinish
    \/ Switch

ConcurrentSpec == ConcurrentInit /\ [][ConcurrentNext]_vars

(***************************************************************************)
(* The ingestion and health endpoints, and the generator's try block, each *)
(* called on inputs and service answers drawn from small sets, over the    *)
(* vector index as the calls before left it. No chat request is in flight. *)
(***************************************************************************)
ServiceInit ==
    /\ Begin("invoke", "m1")
    /\ cache = [m \in Messages |-> Absent]
    /\ other = Idle
    /\ \E e \in BOOLEAN : index = [exists |-> e, points |-> 0]
    /\ call = NoCall

\* POST /ingestion/upload. loaded: doc_loader returned (it raises on an
\* unsupported or unreadable file, answered as HTTP 500); n: the chunks
\* doc_chunker made.
upload_document ==
    \E loaded \in BOOLEAN, n \in 0..MaxChunks, list_ok \in BOOLEAN, create_ok \in BOOLEAN :
      \E fail_at \in 0..n :
        /\ index.points + n <= MaxPoints
        /\ IF ~loaded
           THEN /\ call' = [NoCall EXCEPT !.op = "upload", !.status = 500,
                                          !.body = "Internal server error during ingestion."]
                /\ UNCHANGED index
           ELSE LET r == store_chunks(index, n, list_ok, create_ok, fail_at) IN
                /\ call' = [NoCall EXCEPT !.op = "upload", !.status = 200,
                                          !.list_ok = list_ok, !.create_ok = create_ok,
                                          !.existed = index.exists,
                                          !.chunks = n, !.fail_at = fail_at,
                                          !.upserted = r.upserted,
                                          !.stored_count = r.stored_count,
                                          !.error = r.error]
                /\ index' = r.index
        /\ UNCHANGED chatVars

\* GET /health/qdrant
db_vector_store ==
    \E list_ok \in BOOLEAN, create_ok \in BOOLEAN :
      LET c == create_collection(index, list_ok, create_ok)
          r == db_vector_store_return(c)
      IN /\ call' = [NoCall EXCEPT !.op = "qdrant_health", !.list_ok = list_ok,
                                   !.create_ok = create_ok, !.existed = index.exists,
                                   !.status = r.status, !.body = r.body]
         /\ index' = c.index
         /\ UNCHANGED chatVars

\* GET /health/mcp
mcp_health ==
    \E reachable \in BOOLEAN :
      LET r == mcp_health_return(get_tools(reachable)) IN
      /\ call' = [NoCall EXCEPT !.op = "mcp_health", !.reachable = reachable,
                                !.status = r.status, !.body = r.body,
                                !.tool_count = r.tool_count]
      /\ UNCHANGED <<chatVars, index>>

\* The try block of the generator node for the message "m1".
generator_call ==
    \E reachable \in BOOLEAN, agent_ok \in BOOLEAN, store_ok \in BOOLEAN,
       messages \in AgentOutputs("m1") :
      LET cmd == generator_try(get_tools(reachable), agent_ok, messages, store_ok) IN
      /\ call' = [NoCall EXCEPT !.op = "generator", !.reachable = reachable,
                                !.agent_ok = agent_ok, !.store_ok = store_ok,
                                !.response = cmd.update["response"].val,
                                !.body = cmd.goto]
      /\ UNCHANGED <<chatVars, index>>

ServiceNext ==
    \/ upload_document
    \/ db_vector_store
    \/ mcp_health
    \/ generator_call

ServiceSpec == ServiceInit /\ [][ServiceNext]_vars

(***************************************************************************)
(* Properties.                                                             *)
(***************************************************************************)
GeneratorErrors == {"agent call failed", "cache write failed"}
IsGeneratorApology(r) == \E e \in GeneratorErrors : r = Some(GeneratorApology(e))
Executed == step - 1      \* node executions of the current run so far
CapError == "Recursion limit reached"

\* C1: when the planner's cache lookup returns and the message has a cache
\* entry, the run returns that entry's response unchanged, with tools_used
\* equal to the entry's tool list and is_cached true; no plan is made (plan
\* and tools stay unset) and no node other than planner runs in that run.
C1_CacheHitShortCircuits ==
    (ev.node = "planner" /\ ev.kind # "lookup_failed" /\ cache[message].present)
    => /\ state["response"] = Some(cache[message].response)
       /\ state["tools_used"] = Some(cache[message].metadata)
       /\ state["is_cached"] = Some(TRUE)
       /\ state["plan"] = Unset
       /\ state["tools"] = Unset
       /\ next = "__end__"
       /\ ran = {"planner"}
       /\ outcome \in {"running", "cached"}

C1_Witness ==
    /\ ev.node = "planner"
    /\ cache[message].present
    /\ cache[message].metadata = <<"t1">>
    /\ outcome = "cached"
    /\ state["response"] = Some("a1")

\* C2 (as claimed): on either entry point a run executes at most the
\* configured cap of 10 stages before it ends or is aborted.
C2_AtMostTenStages == Executed <= RecursionLimit

\* C3: when the supervisor's decision call fails (or its output is rejected),
\* the supervisor routes to the end, response is the fixed supervision
\* apology, and nothing is scheduled, so neither retrieval nor generator
\* runs afterwards.
C3_SupervisorFailureTerminates ==
    (ev.node = "supervisor" /\ ev.kind \in {"failed", "rejected"})
    => /\ state["response"] = Some(SupervisorApology)
       /\ next = "__end__"
       /\ outcome \in {"running", "terminate", "cap"}

C3_Witness ==
    /\ ev.node = "supervisor"
    /\ ev.kind = "failed"
    /\ "generator" \in ran
    /\ "retrieval" \in ran
    /\ outcome = "terminate"

\* C4: when the agent call or the cache write of the generator fails, the
\* error stays inside: response is an apology string, tools_used is the empty
\* list and the node scheduled next is the supervisor.
C4_GeneratorFailureRecovered ==
    (ev.node = "generator" /\ ev.kind \in {"agent_failed", "store_failed"})
    => /\ IsGeneratorApology(state["response"])
       /\ state["tools_used"] = Some(<<>>)
       /\ next = "supervisor"
       /\ outcome \in {"running", "cap"}

C4_Witness ==
    /\ ev.node = "generator"
    /\ ev.kind = "agent_failed"
    /\ cache[message].present
    /\ cache[message].metadata = <<"t1">>
    /\ outcome = "running"

\* C5 (as claimed): whenever retrieval hits an error, a failure of the
\* embedding call or of the index search included, retrieved_docs is the
\* empty string and the supervisor is scheduled next.
C5_RetrievalErrorGivesEmptyString ==
    (ev.node = "retrieval" /\ ev.kind \in {"raised", "search_failed"})
    => /\ state["retrieved_docs"] = Some("")
       /\ next = "supervisor"

C7_CacheWriteFailureInvisible ==
    (ev.node = "generator" /\ ev.kind = "store_failed")
    => /\ state["response"] = Some(ev.final_content)
       /\ state["tools_used"] = Some(ev.tool_names)

C9_StagesReturnToSupervisor ==
    /\ ev.node \in {"retrieval", "generator"}
       => next = "supervisor" /\ outcome \in {"running", "cap"}
    /\ outcome = "terminate" => ev.node = "supervisor" /\ next = "__end__"

C9_Witness ==
    /\ ev.node = "generator"
    /\ ev.kind = "generated"
    /\ "retrieval" \in ran
    /\ next = "supervisor"
    /\ outcome = "running"

\* C10 (as claimed): a run ends in one of three shapes only: cached
\* short-circuit, the supervisor's terminate, or the cap.
C10_ThreeEndShapes == outcome \in {"running", "cached", "terminate", "cap"}

\* C10 (amended): a run ends in exactly one of four shapes: cached
\* short-circuit (only planner ran, on a cache hit), the supervisor's
\* terminate (right after a supervisor execution), the cap (step counter past
\* the limit), or a planner failure raised to the caller (only planner ran).
C10_FourEndShapes ==
    /\ outcome \in {"running", "cached", "terminate", "cap", "planner_error"}
    /\ outcome = "cached"
       => ev.node = "planner" /\ ran = {"planner"} /\ state["is_cached"] = Some(TRUE)
    /\ outcome = "terminate"
       => ev.node = "supervisor" /\ next = "__end__" /\ state["is_cached"] = Unset
    /\ outcome = "cap" => step > recursion_limit(entry)
    /\ outcome = "planner_error"
       => ev.node = "planner" /\ ran = {"planner"} /\ step = 1
    /\ outcome = "running" /\ entry = "invoke" => httpStatus = 0

C10_Witness ==
    /\ outcome = "planner_error"
    /\ ev.kind = "lookup_failed"
    /\ entry = "stream"

\* Does the plan hold the step the planning prompt prescribes for a query
\* that needs no tools?
RespondsDirectly(plan) ==
    \E i \in DOMAIN plan : plan[i] = "Respond directly to the query without using tools."

\* The documents field holds formatted documents or the sentinel.
DocsPresent(st) == st["retrieved_docs"].set /\ st["retrieved_docs"].val # ""

\* C11 (as claimed): once retrieved_docs holds formatted documents or the
\* "No documents found for the query." sentinel, no later supervisor decision
\* of the run routes to retrieval, so retrieval runs at most once per run.
C11_NoRetrievalOnceDocsSet ==
    (ev.node = "supervisor" /\ ev.kind = "decided" /\ DocsPresent(state))
    => next # "retrieval"

\* C12 (as claimed): in a run whose plan holds a "respond directly" step the
\* first supervisor decision is generator, and retrieval does not run before
\* the generator has.
C12_DirectPlanGoesToGenerator ==
    (state["plan"].set /\ RespondsDirectly(state["plan"].val))
    => /\ (ev.node = "supervisor" /\ ev.kind = "decided" /\ ran = {"planner", "supervisor"}
           /\ step = 3)
          => next = "generator"
       /\ "retrieval" \in ran => "generator" \in ran

\* C13 (as claimed): the supervisor does not choose retrieval directly after
\* a retrieval execution that set retrieved_docs, and does not choose
\* generator directly after a generator execution that set response.
C13_NoImmediateRepeat ==
    [][ (supervisor /\ ev'.kind = "decided")
        => /\ (ev.node = "retrieval" /\ state["retrieved_docs"].set) => next' # "retrieval"
           /\ (ev.node = "generator" /\ state["response"].set) => next' # "generator" ]_vars

\* C14 (as claimed): once the generator has written response, no execution
\* of supervisor, retrieval or planner changes response in that run.
C14_ResponseKeptAfterGeneration ==
    [][ ((supervisor \/ retrieval \/ planner) /\ "generator" \in ran)
        => state'["response"] = state["response"] ]_vars

\* C15 (as claimed): for the same message, cache and sequence of service
\* answers the streaming entry point ends like the non-streaming one. The
\* nodes do not read the entry point, so at the end of a streaming run the
\* state is the one graph.ainvoke returns as long as the run fits under the
\* non-streaming cap: the last fragment is then the body chat_response
\* answers with, and a streaming run does not end normally where
\* chat_response fails.
C15_StreamEndsLikeInvoke ==
    (entry = "stream" /\ outcome \in {"terminate", "cached"})
    => /\ step <= RecursionLimit
       /\ chat_response_return(FALSE, "", state).status = 200
       /\ lastFragment = chat_response_return(FALSE, "", state).body

\* C16 (as claimed): when a run ends normally after a generator execution
\* and the cache holds an entry under its message, the entry's response is
\* the response the run returns, so that the next run with that message (a
\* cache hit, which returns the entry's response) returns what the first
\* run returned.
C16_RepeatReturnsSameResponse ==
    (outcome = "terminate" /\ "generator" \in ran /\ cache[message].present)
    => state["response"] = Some(cache[message].response)

\* C17: within one run at most one node is triggered per superstep: retrieval
\* and generator are never triggered together, and after a supervisor
\* decision the static supervisor -> END edge adds nothing to the dynamic
\* target, so exactly the chosen node is triggered (none when the decision is
\* to end).
C17_OneStageAtATime ==
    /\ Cardinality(tasks) <= 1
    /\ ~({"retrieval", "generator"} \subseteq tasks)
    /\ (ev.node = "supervisor" /\ ev.kind = "decided") => tasks = {next} \ {"__end__"}
    /\ ev.node \in {"planner", "retrieval", "generator"} /\ outcome = "running"
       => tasks = {next} \ {"__end__"}

C17_Witness ==
    /\ ev.node = "supervisor"
    /\ ev.kind = "decided"
    /\ tasks = {"retrieval"}
    /\ "generator" \in ran
    /\ outcome = "running"

\* Every field set in the workflow state of request l was written by a node
\* of l's own run: the input by the entry point, plan and tools by its
\* planner, retrieved_docs by its retrieval, response and tools_used by its
\* generator or supervisor, or all three result fields by its planner from
\* the one cache lookup that opens the run.
OwnState(l) ==
    /\ l.state["message"] = Some(l.message)
    /\ l.ran = {} => l.state = InputState(l.message)
    /\ l.state["plan"].set \/ l.state["tools"].set => "planner" \in l.ran
    /\ l.state["retrieved_docs"].set => "retrieval" \in l.ran
    /\ l.state["is_cached"].set
       => l.ran = {"planner"} /\ l.ev.kind = "lookup_found" /\ l.next = "__end__"
    /\ l.state["response"].set
       => \/ l.state["is_cached"].set
          \/ "generator" \in l.ran
          \/ l.state["response"].val = SupervisorApology /\ "supervisor" \in l.ran
    /\ l.state["tools_used"].set => l.state["is_cached"].set \/ "generator" \in l.ran
    /\ (l.ev.node = "generator" /\ l.ev.kind = "generated")
       => /\ l.state["response"] = Some(l.ev.final_content)
          /\ l.state["tools_used"] = Some(l.ev.tool_names)

\* C18: however two requests in flight interleave, the workflow state of
\* each holds only what its own run wrote; the suspended request changes
\* only by the event loop suspending and resuming (never by a node of the
\* running one), a step changes at most the cache entry under the running
\* request's own message (a generator execution alone does), and a run takes
\* a cached result only in its planner, before any other node of it has run.
C18_RequestsIsolated ==
    /\ [](OwnState(Locals) /\ OwnState(other))
    /\ [][ /\ other' # other => (other' = Locals /\ cache' = cache)
           /\ \A m \in Messages \ {message} : cache'[m] = cache[m]
           /\ cache' # cache => (ev'.node = "generator" /\ other' = other) ]_vars

C18_Witness ==
    /\ message = other.message
    /\ state["is_cached"] = Some(TRUE)
    /\ state["response"] = Some("a1")
    /\ other.outcome = "running"
    /\ "generator" \in other.ran
    /\ other.state["response"] = Some("a1")
    /\ other.state["is_cached"] = Unset

\* C19: the target applied after a supervisor execution is retrieval,
\* generator or the end, and only those nodes are triggered; a node name
\* outside these three coming from the decision model is not applied: the
\* run is routed to the end with the supervision apology as response.
C19_OnlyValidTargetsApplied ==
    ev.node = "supervisor"
    => /\ next \in {"retrieval", "generator", "__end__"}
       /\ tasks \subseteq {"retrieval", "generator"}
       /\ ev.kind = "rejected"
          => /\ next = "__end__"
             /\ tasks = {}
             /\ state["response"] = Some(SupervisorApology)

C19_Witness ==
    /\ ev.node = "supervisor"
    /\ ev.kind = "rejected"
    /\ "retrieval" \in ran
    /\ outcome = "terminate"
    /\ state["response"] = Some(SupervisorApology)

\* C20 (as claimed): when a run ends through the supervisor's decision to
\* terminate, response is set to a string that is not empty and the caller
\* gets it as the reply, whatever the sequence of decisions was.
C20_TerminateAlwaysReplies ==
    outcome = "terminate"
    => /\ state["response"].set
       /\ Truthy(state["response"].val)
       /\ entry = "invoke" => httpStatus = 200 /\ body = state["response"].val

\* Blocks 1..n of the passages docs, block i being "Document i: " followed by
\* a line break and the text of the i-th passage, separated by blank lines.
RECURSIVE NumberedBlocks(_, _)
NumberedBlocks(docs, n) ==
    IF n = 0 THEN ""
    ELSE NumberedBlocks(docs, n - 1) \o (IF n = 1 THEN "" ELSE "\n\n")
         \o "Document " \o ToString(n) \o ": \n" \o docs[n]

NoDuplicates(seq) == \A i, j \in DOMAIN seq : seq[i] = seq[j] => i = j

\* C22 (as claimed): after a successful generator execution tools_used holds
\* each tool name the agent invoked once, also when the agent called the
\* same tool several times.
C22_ToolsUsedDistinct ==
    (ev.node = "generator" /\ ev.kind = "generated")
    => /\ state["tools_used"].set
       /\ NoDuplicates(state["tools_used"].val)

\* Could the vector store be reached by the call recorded in call: the
\* collections could be listed and, where the collection was missing, created.
StoreReached == call.list_ok /\ (call.existed \/ call.create_ok)

\* C23 (as claimed): the Qdrant health check answers 200 with status
\* "Healthy" when the vector store can be reached, and 503 when listing or
\* creating the collection fails.
C23_QdrantHealthReportsOutage ==
    call.op = "qdrant_health"
    => IF StoreReached
       THEN call.status = 200 /\ call.body = "Healthy"
       ELSE call.status = 503

C25_IngestionResultShape ==
    (call.op = "upload" /\ call.status = 200)
    => /\ call.error = PyNone <=> (call.stored_count = call.chunks /\ call.chunks >= 1)
       /\ call.error # PyNone => call.stored_count = 0
       /\ ~StoreReached => call.upserted = 0

\* C26 (as claimed): stored_count is the number of chunks the run upserted
\* into the index; with stored_count 0 no chunk of the run is in the index,
\* also when embedding or upsert fails part-way through the chunk list.
C26_StoredCountIsUpserted ==
    (call.op = "upload" /\ call.status = 200)
    => call.stored_count = call.upserted

\* C27 (as claimed): when a run in which the generator executed ends through
\* terminate, the response returned to the caller is the value that run stored
\* last in the cache under its message. In particular, when the generator has
\* just stored its answer (its event is "generated") and the supervisor
\* execution that follows ends the run, the response of the ending run, which
\* chat_response and generate_stream hand to the caller, is the stored one,
\* whether that supervisor execution succeeded or failed.
C27_ReturnedIsLastStored ==
    [][ ( /\ ev.node = "generator"
          /\ ev.kind = "generated"
          /\ ev'.node = "supervisor"
          /\ next' = "__end__" )
        => /\ cache'[message].present
           /\ state'["response"] = Some(cache'[message].response) ]_vars

\* C28: the cache never holds an apology, and it is written only by a
\* generator execution whose agent call succeeded (event "generated"), with
\* the answer and the tool list that execution extracted, under the message of
\* the run; the failure paths of generator and supervisor, the planner (its
\* cache-hit path included), retrieval and the end of a run leave the cache
\* as it was.
C28_CacheHoldsOnlyAnswers ==
    /\ [](\A m \in Messages :
            cache[m].present
            => /\ cache[m].response # SupervisorApology
               /\ \A e \in GeneratorErrors \cup {"tool fetch failed"} :
                    cache[m].response # GeneratorApology(e))
    /\ [][ cache' # cache
           => /\ ev'.node = "generator"
              /\ ev'.kind = "generated"
              /\ cache' = store(cache, message, ev'.final_content, ev'.tool_names) ]_vars

C28_Witness ==
    /\ ev.node = "generator"
    /\ ev.kind = "agent_failed"
    /\ IsGeneratorApology(state["response"])
    /\ cache[message] = Entry("a1", <<"t1">>)

\* The fields of the workflow state that differ between st1 and st2.
Changed(st1, st2) == {k \in StateKeys : st1[k] # st2[k]}

\* C29: each node execution writes only its own fields and the runner keeps
\* the others: message is the request's message throughout the run; plan and
\* tools change only in a planner execution; retrieval changes nothing but
\* retrieved_docs; generator changes nothing but response and tools_used; a
\* supervisor execution that decided changes no field; the planner changes
\* either plan and tools, or, on a cache hit, response, tools_used and
\* is_cached; is_cached is only ever set to true, by the planner's cache hit,
\* and then plan, tools and retrieved_docs are unset.
C29_StagesWriteOwnFields ==
    /\ [](/\ state["message"] = Some(message)
          /\ state["is_cached"] \in {Unset, Some(TRUE)}
          /\ state["is_cached"] = Some(TRUE)
             => /\ state["plan"] = Unset
                /\ state["tools"] = Unset
                /\ state["retrieved_docs"] = Unset)
    /\ [][ step' = step + 1
           => LET changed == Changed(state, state') IN
              /\ "message" \notin changed
              /\ changed \cap {"plan", "tools"} # {} => ev'.node = "planner"
              /\ ev'.node = "retrieval" => changed \subseteq {"retrieved_docs"}
              /\ ev'.node = "generator" => changed \subseteq {"response", "tools_used"}
              /\ (ev'.node = "supervisor" /\ ev'.kind = "decided") => changed = {}
              /\ ev'.node = "planner"
                 => \/ changed \subseteq {"plan", "tools"}
                    \/ /\ ev'.kind = "lookup_found"
                       /\ changed \subseteq {"response", "tools_used", "is_cached"}
              /\ "is_cached" \in changed
                 => ev'.node = "planner" /\ ev'.kind = "lookup_found" ]_vars

C29_Witness ==
    /\ ev.node = "retrieval"
    /\ ev.kind = "searched"
    /\ "generator" \in ran
    /\ state["response"] = Some("a1")
    /\ state["tools_used"] = Some(<<"t1">>)
    /\ state["plan"].set
    /\ state["retrieved_docs"] = Some(NoDocumentsFound)

====
